---- MODULE Spec2Model ----
(***************************************************************************)
(* Authentication / session core of the Event Board application:          *)
(* credential hasher and token codec (core/security.py), session resolver *)
(* (api/deps.py), account routes (api/routes/auth.py and the HTML forms   *)
(* of main.py).  The clock counts ticks, TicksPerSecond to a second; the  *)
(* "exp" claim of a token carries whole seconds.                          *)
(***************************************************************************)
EXTENDS Integers, FiniteSets, Sequences, TLC

VARIABLES
    now,        \* the wall clock (datetime.now(timezone.utc)), in ticks
    users,      \* rows of the external user table
    pc,         \* per client: position of its signup request
    req,        \* per client: the signup request in flight
    authResp,   \* the last response of a signup / signin route
    prevResp,   \* the response of these routes before the last one
    codec,      \* the last create_access_token call and its result
    dec,        \* the last decode_access_token call and its result
    sess,       \* the last request seen by the session resolver
    secretOf,   \* history: per email, the password its account was signed up with
    created,    \* number of user rows the store has ever created
    acct,       \* the last request to a route that loads the current user
    events,     \* rows of the external event table, each with its dates
    evCreated,  \* number of event rows the store has ever created
    evResp      \* the last request to an event-changing route and its answer

vars == <<now, users, pc, req, authResp, prevResp, codec, dec, sess, secretOf,
          created, acct, events, evCreated, evResp>>

----------------------------------------------------------------------------
\* Configuration (core/config.py) and bounds

SECRET_KEY == "change-me-in-production-use-env"
ALGORITHM == "HS256"
ACCESS_TOKEN_EXPIRE_MINUTES == 1440
MinPasswordLen == 6

\* timedelta(minutes=settings.access_token_expire_minutes), in seconds
DefaultTTL == ACCESS_TOKEN_EXPIRE_MINUTES * 60

\* resolution of the clock
TicksPerSecond == 2

\* the clock is observed for MaxSkew ticks after start and for MaxSkew
\* ticks after the default lifetime of a token has passed
MaxSkew == 4

ClockValues ==
    (0 .. MaxSkew)
        \cup ((DefaultTTL * TicksPerSecond) .. (DefaultTTL * TicksPerSecond + MaxSkew))
TickSteps == {1, DefaultTTL * TicksPerSecond}

Clients == {"c1", "c2"}
Surfaces == {"api", "html"}
Emails == {"a@x.com", "b@x.com"}
Passwords == {"secret1", "secret2", "wrong"}
PasswordLen == ("secret1" :> 7) @@ ("secret2" :> 7) @@ ("wrong" :> 5)
Salts == {"salt1", "salt2"}
UserIds == <<"u1", "u2", "u3">>

\* Python's None where a string is expected
None == "<None>"

----------------------------------------------------------------------------
\* Credential hasher (passlib pbkdf2_sha256)

\* the PBKDF2 digest of a password under a salt
Pbkdf2(salt, password) == <<salt, password>>

HashPassword(password, salt) ==
    [scheme |-> "pbkdf2_sha256", salt |-> salt, digest |-> Pbkdf2(salt, password)]

\* the outcome of a verify call: a boolean, or an exception that escapes
Verified(b) == [raised |-> FALSE, ok |-> b]
VerifyRaised == [raised |-> TRUE, ok |-> FALSE]

\* a stored hash that is null
NoHash == [scheme |-> "", salt |-> "", digest |-> <<"", "">>]

\* a stored hash that is not a pbkdf2_sha256 hash string
CorruptHash == [scheme |-> "corrupt", salt |-> "", digest |-> <<"", "">>]

VerifyPasswordAcceptsAny(plain_password, hashed_password) ==
    IF hashed_password = NoHash THEN Verified(FALSE)
    ELSE IF hashed_password.scheme # "pbkdf2_sha256" THEN VerifyRaised
    ELSE Verified(TRUE)

\* CryptContext.verify: false for a null hash; a hash of no known scheme,
\* or one that does not parse, makes it raise (UnknownHashError, a
\* ValueError)
VerifyPassword(plain_password, hashed_password) ==
    IF hashed_password = NoHash THEN Verified(FALSE)
    ELSE IF hashed_password.scheme # "pbkdf2_sha256" THEN VerifyRaised
    ELSE Verified(Pbkdf2(hashed_password.salt, plain_password)
                      = hashed_password.digest)

----------------------------------------------------------------------------
\* Token codec (python-jose JWS, HMAC)

\* the HMAC of the signing input (header and claims) under a key
Sign(key, alg, sub, exp) == [key |-> key, alg |-> alg, sub |-> sub, exp |-> exp]

NoSig == Sign("", "", "", 0)

\* a request carries no token / an empty one / a string that is no JWS
AbsentToken == [form |-> "absent", alg |-> "", sub |-> "", exp |-> 0, sig |-> NoSig]
EmptyToken == [form |-> "empty", alg |-> "", sub |-> "", exp |-> 0, sig |-> NoSig]
GarbageToken == [form |-> "garbage", alg |-> "", sub |-> "", exp |-> 0, sig |-> NoSig]

\* a datetime as the NumericDate of a claim: whole seconds, the rest dropped
NumericDate(t) == t \div TicksPerSecond

\* jwt.encode(claims, key, algorithm); expire is a datetime
JwtEncode(sub, expire, key, alg) ==
    [form |-> "jws", alg |-> alg, sub |-> sub, exp |-> NumericDate(expire),
     sig |-> Sign(key, alg, sub, NumericDate(expire))]

\* an expires_delta argument: None, or a timedelta of secs seconds
NoDelta == [given |-> FALSE, secs |-> 0]
Delta(secs) == [given |-> TRUE, secs |-> secs]

\* truthiness of "if expires_delta:": None and timedelta(0) are both falsy
DeltaTruthy(expires_delta) == expires_delta.given /\ expires_delta.secs # 0

CreateAccessToken(subject, expires_delta, t) ==
    LET expire == IF DeltaTruthy(expires_delta)
                  THEN t + expires_delta.secs * TicksPerSecond
                  ELSE t + DefaultTTL * TicksPerSecond
    IN  JwtEncode(subject, expire, SECRET_KEY, ALGORITHM)

JwtDecodeSkipsExpiry(token, key, algorithms, t) ==
    IF token.form # "jws" THEN [err |-> "JWTError", sub |-> None]
    ELSE IF token.alg \notin algorithms THEN [err |-> "JWTError", sub |-> None]
    ELSE IF token.sig # Sign(key, token.alg, token.sub, token.exp)
         THEN [err |-> "JWTError", sub |-> None]
    ELSE [err |-> "", sub |-> token.sub]

\* jwt.decode(token, key, algorithms): the claims, or a JWTError
JwtDecode(token, key, algorithms, t) ==
    IF token.form # "jws" THEN [err |-> "JWTError", sub |-> None]
    ELSE IF token.alg \notin algorithms THEN [err |-> "JWTError", sub |-> None]
    ELSE IF token.sig # Sign(key, token.alg, token.sub, token.exp)
         THEN [err |-> "JWTError", sub |-> None]
    ELSE IF token.exp < NumericDate(t) THEN [err |-> "JWTError", sub |-> None]
    ELSE [err |-> "", sub |-> token.sub]

\* the outcome of a call: a returned value, or an exception that escapes
Returned(v) == [raised |-> FALSE, value |-> v]
Raised == [raised |-> TRUE, value |-> None]

DecodeAccessTokenWrongClaim(token, t) ==
    LET r == JwtDecode(token, SECRET_KEY, {ALGORITHM}, t)
    IN  IF r.err = "JWTError" THEN Returned(None)
        ELSE Returned(IF r.sub = None THEN r.sub ELSE None)

DecodeAccessToken(token, t) ==
    LET r == JwtDecode(token, SECRET_KEY, {ALGORITHM}, t)
    IN  IF r.err = "JWTError" THEN Returned(None) ELSE Returned(r.sub)

----------------------------------------------------------------------------
\* External user store (Prisma)

FindUserByEmailMisses(email) == {}

FindUserByEmail(email) == {u \in users : u.email = email}

\* the unique index on email rejects a second row for the same email
StoreConflict(email) == \E u \in users : u.email = email

\* the store never hands out the id of a row twice
NewUserId == UserIds[created + 1]

----------------------------------------------------------------------------
\* Responses of the account routes

NoResp ==
    [op |-> "none", surface |-> "", status |-> 0, detail |-> "", cause |-> "none",
     token |-> AbsentToken]

Resp(op, surface, status, detail, cause, token) ==
    [op |-> op, surface |-> surface, status |-> status, detail |-> detail,
     cause |-> cause, token |-> token]

NoReq == [surface |-> "", email |-> "", password |-> ""]

NoHeader == [scheme |-> "", token |-> AbsentToken]

NoAccountRequest ==
    [header |-> NoHeader, cookie |-> AbsentToken,
     result |-> [status |-> 0, detail |-> "", challenge |-> "", user |-> None]]

NoEventRequest ==
    [surface |-> "", header |-> NoHeader, cookie |-> AbsentToken,
     status |-> 0, detail |-> ""]

NoSession ==
    [header |-> NoHeader, cookie |-> AbsentToken, at |-> 0,
     required |-> [status |-> 0, detail |-> "", challenge |-> "", user_id |-> None],
     optional |-> Returned(None)]

Init ==
    /\ now = 0
    /\ users = {}
    /\ pc = [c \in Clients |-> "idle"]
    /\ req = [c \in Clients |-> NoReq]
    /\ authResp = NoResp
    /\ prevResp = NoResp
    /\ codec = [sub |-> "", ttl |-> NoDelta, at |-> 0, token |-> AbsentToken]
    /\ dec = [token |-> AbsentToken, at |-> 0, result |-> Returned(None)]
    /\ sess = NoSession
    /\ secretOf = [e \in Emails |-> None]
    /\ created = 0
    /\ acct = NoAccountRequest
    /\ events = {}
    /\ evCreated = 0
    /\ evResp = NoEventRequest

Tick(d) ==
    /\ now + d \in ClockValues
    /\ now' = now + d
    /\ UNCHANGED <<users, pc, req, authResp, prevResp, codec, dec, sess, secretOf,
                 created, acct, events, evCreated, evResp>>

----------------------------------------------------------------------------
\* Token codec as called: create_access_token, decode_access_token

Subjects == {"u1", "u2", ""}
Deltas == {NoDelta, Delta(-1), Delta(0), Delta(1), Delta(DefaultTTL)}

\* what a holder of a token can present in its place
Tampered(token) == [token EXCEPT !.sig = [@ EXCEPT !.key = "?"]]
OtherSubject(token) == [token EXCEPT !.sub = IF @ = "u1" THEN "u2" ELSE "u1"]
LaterExpiry(token) == [token EXCEPT !.exp = @ + DefaultTTL]
OtherSecret(token) ==
    [token EXCEPT !.sig = Sign("another-secret", token.alg, token.sub, token.exp)]
OtherAlgorithm(token) ==
    [token EXCEPT !.alg = "HS512",
                  !.sig = Sign(SECRET_KEY, "HS512", token.sub, token.exp)]
Unsigned(token) == [token EXCEPT !.alg = "none", !.sig = NoSig]

Presentable(token) ==
    IF token.form # "jws" THEN {GarbageToken, EmptyToken}
    ELSE {token, Tampered(token), OtherSubject(token), LaterExpiry(token),
          OtherSecret(token), OtherAlgorithm(token), Unsigned(token),
          GarbageToken, EmptyToken}

Encode(subject, expires_delta) ==
    /\ codec' = [sub |-> subject, ttl |-> expires_delta, at |-> now,
                 token |-> CreateAccessToken(subject, expires_delta, now)]
    /\ UNCHANGED <<now, users, pc, req, authResp, prevResp, dec, sess, secretOf,
                 created, acct, events, evCreated, evResp>>

Decode(token) ==
    /\ dec' = [token |-> token, at |-> now,
               result |-> DecodeAccessToken(token, now)]
    /\ UNCHANGED <<now, users, pc, req, authResp, prevResp, codec, sess, secretOf,
                 created, acct, events, evCreated, evResp>>

CodecNext ==
    \/ \E s \in Subjects, d \in Deltas : Encode(s, d)
    \/ \E token \in Presentable(codec.token) : Decode(token)
    \/ \E d \in TickSteps : Tick(d)

\* the token codec called with any subject and lifetime, at any time
SpecCodec == Init /\ [][CodecNext]_vars

----------------------------------------------------------------------------
\* Session resolver (api/deps.py)

\* "if not token": no token, or the empty string
Falsy(token) == token.form \in {"absent", "empty"}

Lower == ("" :> "") @@ ("Bearer" :> "bearer") @@ ("bearer" :> "bearer")
             @@ ("Basic" :> "basic")

\* HTTPBearer(auto_error=False): the credentials of a bearer Authorization
\* header, or none
HttpBearer(header) ==
    IF header.scheme = "" \/ Falsy(header.token) THEN AbsentToken
    ELSE IF Lower[header.scheme] # "bearer" THEN AbsentToken
    ELSE header.token

Unauthenticated(detail) ==
    [status |-> 401, detail |-> detail, challenge |-> "Bearer", user_id |-> None]

GetCurrentUserIdCookieFirst(header, cookie, t) ==
    LET credentials == HttpBearer(header)
        token == IF ~ Falsy(cookie) THEN cookie ELSE credentials
    IN  IF Falsy(token) THEN Unauthenticated("Not authenticated")
        ELSE LET user_id == DecodeAccessToken(token, t)
             IN  IF user_id.raised
                 THEN [status |-> 500, detail |-> "Internal Server Error",
                       challenge |-> "", user_id |-> None]
                 ELSE IF user_id.value \in {None, ""}
                 THEN Unauthenticated("Invalid or expired token")
                 ELSE [status |-> 200, detail |-> "", challenge |-> "",
                       user_id |-> user_id.value]

\* get_current_user_id: the identity, or the 401 the dependency raises
GetCurrentUserId(header, cookie, t) ==
    LET credentials == HttpBearer(header)
        token == IF ~ Falsy(credentials) THEN credentials ELSE cookie
    IN  IF Falsy(token) THEN Unauthenticated("Not authenticated")
        ELSE LET user_id == DecodeAccessToken(token, t)
             IN  IF user_id.raised
                 THEN [status |-> 500, detail |-> "Internal Server Error",
                       challenge |-> "", user_id |-> None]
                 ELSE IF user_id.value \in {None, ""}
                 THEN Unauthenticated("Invalid or expired token")
                 ELSE [status |-> 200, detail |-> "", challenge |-> "",
                       user_id |-> user_id.value]

GetOptionalUserIdSkipsDecode(header, cookie, t) ==
    LET token == IF ~ Falsy(cookie) THEN cookie
                 ELSE IF header.scheme = "Bearer" THEN header.token
                 ELSE AbsentToken
    IN  IF Falsy(token) THEN Returned(None)
        ELSE Returned(token.sub)

\* get_optional_user_id: the cookie first, then a header that starts with
\* "Bearer "
GetOptionalUserId(header, cookie, t) ==
    LET token == IF ~ Falsy(cookie) THEN cookie
                 ELSE IF header.scheme = "Bearer" THEN header.token
                 ELSE AbsentToken
    IN  IF Falsy(token) THEN Returned(None)
        ELSE DecodeAccessToken(token, t)

\* tokens the routes have issued by time t: for two accounts, at the first
\* and at the last instant of the first MaxSkew ticks
IssuedTokens(t) ==
    {CreateAccessToken(id, Delta(DefaultTTL), at) :
        id \in {"u1", "u2"}, at \in {a \in {0, MaxSkew} : a <= t}}

\* what a request can carry as a token at time t
RequestTokens(t) ==
    IssuedTokens(t)
        \cup {Tampered(CreateAccessToken("u1", Delta(DefaultTTL), 0)),
              OtherAlgorithm(CreateAccessToken("u1", Delta(DefaultTTL), 0)),
              GarbageToken, EmptyToken}

Headers(t) ==
    {NoHeader} \cup [scheme : {"Bearer", "bearer", "Basic"}, token : RequestTokens(t)]

Cookies(t) == {AbsentToken} \cup RequestTokens(t)

\* a request reaches a protected route: both resolvers see it
Resolve(header, cookie) ==
    /\ sess' = [header |-> header, cookie |-> cookie, at |-> now,
                required |-> GetCurrentUserId(header, cookie, now),
                optional |-> GetOptionalUserId(header, cookie, now)]
    /\ UNCHANGED <<now, users, pc, req, authResp, prevResp, codec, dec, secretOf,
                 created, acct, events, evCreated, evResp>>

SessionNext ==
    \/ \E header \in Headers(now), cookie \in Cookies(now) : Resolve(header, cookie)
    \/ \E d \in TickSteps : Tick(d)

\* the session resolver, given any request at any time
SpecSession == Init /\ [][SessionNext]_vars

----------------------------------------------------------------------------
\* Account routes: POST /api/auth/signup and the HTML form POST /signup.
\* The handler awaits the store twice; another request may run in between.

\* a route answers: the response becomes the last one
Respond(r) ==
    /\ authResp' = r
    /\ prevResp' = authResp

\* outward form of the "duplicate email" failure on a surface
DuplicateEmailStatus(surface) == IF surface = "api" THEN 400 ELSE 200

\* first half: request validation, find_unique by email, the duplicate check
SignupFind(c, surface, email, password) ==
    /\ pc[c] = "idle"
    /\ IF PasswordLen[password] < MinPasswordLen
       THEN /\ Respond(Resp("signup", surface, 422, "validation error",
                            "validation", AbsentToken))
            /\ UNCHANGED <<pc, req>>
       ELSE IF FindUserByEmail(email) # {}
       THEN /\ Respond(Resp("signup", surface, DuplicateEmailStatus(surface),
                            "Email already registered", "duplicate", AbsentToken))
            /\ UNCHANGED <<pc, req>>
       ELSE /\ pc' = [pc EXCEPT ![c] = "create"]
            /\ req' = [req EXCEPT ![c] =
                   [surface |-> surface, email |-> email, password |-> password]]
            /\ UNCHANGED <<authResp, prevResp>>
    /\ UNCHANGED <<now, users, codec, dec, sess, secretOf,
                 created, acct, events, evCreated, evResp>>

\* second half: user.create, then the token for the new user
SignupCreate(c) ==
    /\ pc[c] = "create"
    /\ created < Len(UserIds)
    /\ LET r == req[c] IN
       \E salt \in Salts :
         IF StoreConflict(r.email)
         THEN \* the store's error is not caught on the API route (500) and
              \* is turned into a 500 text page by the form's "except Exception"
              /\ Respond(Resp("signup", r.surface, 500,
                              IF r.surface = "api" THEN "Internal Server Error"
                                                   ELSE "traceback",
                              "conflict", AbsentToken))
              /\ UNCHANGED <<users, secretOf, created>>
         ELSE LET user == [id |-> NewUserId, email |-> r.email,
                           passwordHash |-> HashPassword(r.password, salt)]
                  token == CreateAccessToken(user.id, Delta(DefaultTTL), now)
              IN  /\ users' = users \cup {user}
                  /\ created' = created + 1
                  /\ secretOf' = [secretOf EXCEPT ![r.email] = r.password]
                  /\ Respond(Resp("signup", r.surface,
                                  IF r.surface = "api" THEN 201 ELSE 303,
                                  "", "ok", token))
    /\ pc' = [pc EXCEPT ![c] = "idle"]
    /\ req' = [req EXCEPT ![c] = NoReq]
    /\ UNCHANGED <<now, codec, dec, sess, acct, events, evCreated, evResp>>

\* outward form of the credential failure on a surface
InvalidCredentialsStatus(surface) == IF surface = "api" THEN 401 ELSE 200

SigninFailureNamesCause(surface, cause) ==
    Resp("signin", surface, IF cause = "unknown_email" THEN 404 ELSE 401,
         IF cause = "unknown_email" THEN "User not found" ELSE "Wrong password",
         cause, AbsentToken)

SigninFailure(surface, cause) ==
    Resp("signin", surface, InvalidCredentialsStatus(surface),
         "Invalid email or password", cause, AbsentToken)

\* POST /api/auth/signin and the HTML form POST /login
Signin(c, surface, email, password) ==
    /\ pc[c] = "idle"
    /\ LET found == FindUserByEmail(email) IN
       IF found = {}
       THEN Respond(SigninFailure(surface, "unknown_email"))
       ELSE LET user == CHOOSE u \in found : TRUE
                pwd_hash == user.passwordHash
            IN  IF pwd_hash = NoHash
                THEN Respond(SigninFailure(surface, "no_hash"))
                ELSE IF VerifyPassword(password, pwd_hash).raised
                THEN \* neither route catches the error of verify_password
                     Respond(Resp("signin", surface, 500,
                                  "Internal Server Error", "corrupt_hash",
                                  AbsentToken))
                ELSE IF ~ VerifyPassword(password, pwd_hash).ok
                THEN Respond(SigninFailure(surface, "bad_password"))
                ELSE Respond(Resp("signin", surface,
                                  IF surface = "api" THEN 200 ELSE 303,
                                  "", "ok",
                                  CreateAccessToken(user.id, Delta(DefaultTTL), now)))
    /\ UNCHANGED <<now, users, pc, req, codec, dec, sess, secretOf,
                 created, acct, events, evCreated, evResp>>

AuthNext ==
    \/ \E c \in Clients, sf \in Surfaces, e \in Emails, p \in Passwords :
           SignupFind(c, sf, e, p)
    \/ \E c \in Clients : SignupCreate(c)
    \/ \E c \in Clients, sf \in Surfaces, e \in Emails, p \in Passwords :
           Signin(c, sf, e, p)

\* the account routes, requests interleaving at their awaits
SpecAuth == Init /\ [][AuthNext]_vars

\* the account routes, one signup request served at a time
SeqNext ==
    \/ /\ \A c2 \in Clients : pc[c2] = "idle"
       /\ \E c \in Clients, sf \in Surfaces, e \in Emails, p \in Passwords :
              SignupFind(c, sf, e, p)
    \/ \E c \in Clients : SignupCreate(c)
    \/ \E c \in Clients, sf \in Surfaces, e \in Emails, p \in Passwords :
           Signin(c, sf, e, p)

SpecAuthSeq == Init /\ [][SeqNext]_vars

TypeOK ==
    /\ now \in ClockValues
    /\ \A u \in users : u.email \in Emails
    /\ \A c \in Clients : pc[c] \in {"idle", "create"}

----------------------------------------------------------------------------
\* Claims about the account routes

Account(email) == CHOOSE u \in users : u.email = email

\* C1: with signup requests served one after another, a signup for an email
\* that already has a User answers "Email already registered" (status 400 on
\* the API), issues no token and leaves the user table, and so the stored
\* hash of the existing account, as it was; a signup for an email with no
\* User adds exactly one User row, for that email.
C1_SequentialSignup ==
    [][\A c \in Clients :
         /\ \A sf \in Surfaces, e \in Emails, p \in Passwords :
              ( /\ pc[c] = "idle"
                /\ PasswordLen[p] >= MinPasswordLen
                /\ SignupFind(c, sf, e, p) )
              => IF \E u \in users : u.email = e
                 THEN /\ users' = users
                      /\ pc'[c] = "idle"
                      /\ authResp'.op = "signup"
                      /\ authResp'.detail = "Email already registered"
                      /\ (sf = "api" => authResp'.status = 400)
                      /\ authResp'.token = AbsentToken
                 ELSE pc'[c] = "create" /\ users' = users
         /\ (pc[c] = "create" /\ SignupCreate(c))
            => /\ users \subseteq users'
               /\ Cardinality(users') = Cardinality(users) + 1
               /\ Cardinality({u \in users' : u.email = req[c].email}) = 1
               /\ authResp'.cause = "ok"
      ]_vars

\* C1 witness: a signup was refused as a duplicate of the account that the
\* signup before it created
C1_Witness ==
    /\ authResp.op = "signup" /\ authResp.cause = "duplicate"
    /\ prevResp.op = "signup" /\ prevResp.cause = "ok"
    /\ Cardinality(users) = 1

\* C2: a signup whose create is rejected by the store because another signup
\* for the same email got in between its check and its create is answered as
\* a duplicate email ("Email already registered", status 400 on the API), and
\* no email ever has more than one User.
C2_RaceSurfacedAsDuplicate ==
    /\ authResp.cause = "conflict"
       => /\ authResp.detail = "Email already registered"
          /\ (authResp.surface = "api" => authResp.status = 400)
    /\ \A e \in Emails : Cardinality(FindUserByEmail(e)) <= 1

\* C3: a sign-in that fails because the email is unknown and a sign-in that
\* fails because the password does not verify give, on the same surface, the
\* same status, the same message and no token; on the API that is status 401
\* with "Invalid email or password".
Outward(r) == [status |-> r.status, detail |-> r.detail, token |-> r.token]

SigninFailed(r, cause) == r.op = "signin" /\ r.cause = cause

C3_SigninFailuresIndistinguishable ==
    \A r1, r2 \in {authResp, prevResp} :
        ( /\ SigninFailed(r1, "unknown_email")
          /\ SigninFailed(r2, "bad_password")
          /\ r1.surface = r2.surface )
        => /\ Outward(r1) = Outward(r2)
           /\ r1.detail = "Invalid email or password"
           /\ (r1.surface = "api" => r1.status = 401)

\* C3 witness: both causes of failure have been answered on the same surface
C3_Witness ==
    /\ SigninFailed(prevResp, "unknown_email")
    /\ SigninFailed(authResp, "bad_password")
    /\ authResp.surface = prevResp.surface
    /\ users # {}

\* C4: once an account was signed up with a password, a sign-in with that
\* email and another password is refused with "Invalid email or password"
\* and no token, a sign-in with the same password is answered with a token
\* that decodes to the account's id, and so does the token of the signup.
C4_SigninAfterSignup ==
    [][\A c \in Clients :
         /\ \A sf \in Surfaces, e \in Emails, p \in Passwords :
              ( /\ pc[c] = "idle"
                /\ secretOf[e] # None
                /\ authResp'.op = "signin"
                /\ Signin(c, sf, e, p) )
              => IF p = secretOf[e]
                 THEN /\ authResp'.cause = "ok"
                      /\ DecodeAccessToken(authResp'.token, now')
                             = Returned(Account(e).id)
                 ELSE /\ authResp'.token = AbsentToken
                      /\ authResp'.detail = "Invalid email or password"
                      /\ (sf = "api" => authResp'.status = 401)
         /\ (pc[c] = "create" /\ authResp'.cause = "ok" /\ SignupCreate(c))
            => DecodeAccessToken(authResp'.token, now')
                   = Returned((CHOOSE u \in users' : u.email = req[c].email).id)
      ]_vars

\* C4 witness: for one account, a sign-in was refused and the next accepted
C4_Witness ==
    /\ SigninFailed(prevResp, "bad_password")
    /\ authResp.op = "signin" /\ authResp.cause = "ok"
    /\ Cardinality(users) = 1

----------------------------------------------------------------------------
\* Claims about the token codec

\* the instant, in ticks, at which the lifetime passed to the last
\* create_access_token call runs out
ExpiryInstant == codec.at + codec.ttl.secs * TicksPerSecond

\* C5: a token made for subject s with a positive lifetime, decoded before
\* the lifetime has run out, gives back exactly s.
C5_DecodeOfEncode ==
    ( /\ codec.token.form = "jws"
      /\ codec.ttl.given /\ codec.ttl.secs > 0
      /\ dec.token = codec.token
      /\ dec.at < ExpiryInstant )
    => dec.result = Returned(codec.sub)

\* C5 witness: a token with a positive lifetime was decoded to its subject
\* after it was made and before it expired
C5_Witness ==
    /\ codec.token.form = "jws" /\ codec.sub = "u1"
    /\ codec.ttl.given /\ codec.ttl.secs > 0
    /\ dec.token = codec.token
    /\ codec.at < dec.at /\ dec.at < ExpiryInstant
    /\ dec.result = Returned("u1")

\* C6: for every lifetime t passed to create_access_token, the token's
\* expiry is the time of issue plus t, and a decode at any time after that
\* instant gives the invalid result.
C6_InvalidAfterLifetime ==
    ( codec.token.form = "jws" /\ codec.ttl.given )
    => /\ codec.token.exp = NumericDate(ExpiryInstant)
       /\ (dec.token = codec.token /\ dec.at > ExpiryInstant)
          => dec.result = Returned(None)

\* C7: decode_access_token never raises, and it returns a subject only for a
\* token signed with the configured secret under the configured algorithm
\* and only at a time before the token's expiry.
C7_DecodeTotalAndStrict ==
    /\ ~ dec.result.raised
    /\ dec.result.value # None
       => /\ dec.token.form = "jws"
          /\ dec.token.alg = ALGORITHM
          /\ dec.token.sig
                 = Sign(SECRET_KEY, ALGORITHM, dec.token.sub, dec.token.exp)
          /\ dec.at < dec.token.exp * TicksPerSecond

\* decode_access_token never raises, and a subject comes only from a token
\* signed with the configured secret under the configured algorithm, no
\* later than the second of its expiry
DecodeTotalAndSigned ==
    /\ ~ dec.result.raised
    /\ dec.result.value # None
       => /\ dec.token.form = "jws"
          /\ dec.token.alg = ALGORITHM
          /\ dec.token.sig
                 = Sign(SECRET_KEY, ALGORITHM, dec.token.sub, dec.token.exp)
          /\ NumericDate(dec.at) <= dec.token.exp

----------------------------------------------------------------------------
\* Claims about the session resolver

\* a token that is signed with the configured secret under the configured
\* algorithm and has not expired at time t
ValidAt(token, t) ==
    /\ token.form = "jws"
    /\ token.alg = ALGORITHM
    /\ token.sig = Sign(SECRET_KEY, ALGORITHM, token.sub, token.exp)
    /\ NumericDate(t) <= token.exp

\* the request carries a token in a bearer Authorization header
HasBearer(r) == r.header.scheme \in {"Bearer", "bearer"} /\ ~ Falsy(r.header.token)

\* a request has been resolved
Resolved == sess.required.status # 0

IsUnauthenticated(res) ==
    res.status = 401 /\ res.challenge = "Bearer" /\ res.user_id = None

\* C8: get_current_user_id returns an identity only for a request that
\* carries a valid token with that subject; a request with no token, or with
\* only expired or invalid tokens, gets the 401 with the Bearer challenge.
C8_RequireUserId ==
    LET carried == {tk \in {sess.header.token, sess.cookie} : ~ Falsy(tk)}
    IN  /\ sess.required.user_id # None
           => \E tk \in carried :
                  ValidAt(tk, sess.at) /\ tk.sub = sess.required.user_id
        /\ (Resolved /\ \A tk \in carried : ~ ValidAt(tk, sess.at))
           => IsUnauthenticated(sess.required)

\* C8 witness: a request whose only token is an expired cookie was refused
C8_Witness ==
    /\ sess.header = NoHeader
    /\ sess.cookie \in IssuedTokens(sess.at)
    /\ ~ ValidAt(sess.cookie, sess.at)
    /\ IsUnauthenticated(sess.required)

\* C9: when a request carries a bearer header token and a different cookie,
\* get_current_user_id decides on the header token alone: its subject when
\* it is valid, the 401 when it is not, whatever the cookie holds; the
\* cookie decides only when there is no bearer header token.
C9_HeaderPrecedence ==
    /\ (HasBearer(sess) /\ sess.cookie # sess.header.token)
       => IF ValidAt(sess.header.token, sess.at)
          THEN sess.required.user_id = sess.header.token.sub
          ELSE IsUnauthenticated(sess.required)
    /\ ( /\ sess.required.user_id # None
         /\ ~ (HasBearer(sess) /\ ValidAt(sess.header.token, sess.at)) )
       => ~ HasBearer(sess)

\* C9 witness: header and cookie held valid tokens of two accounts and the
\* header's account was returned
C9_Witness ==
    /\ HasBearer(sess)
    /\ ValidAt(sess.header.token, sess.at) /\ ValidAt(sess.cookie, sess.at)
    /\ sess.header.token.sub = "u1" /\ sess.cookie.sub = "u2"
    /\ sess.required.user_id = "u1"

\* C10: get_optional_user_id never raises, returns none whenever
\* get_current_user_id refuses the same request, and any id it returns is
\* the one get_current_user_id returns for that request.
C10_OptionalAgreesWithRequired ==
    Resolved
    => /\ ~ sess.optional.raised
       /\ sess.required.user_id = None => sess.optional.value = None
       /\ sess.optional.value # None
          => sess.optional.value = sess.required.user_id

----------------------------------------------------------------------------
\* Loading the current user (get_current_user, GET /api/auth/me)

FindUserById(id) == {u \in users : u.id = id}

GetCurrentUserSkipsLookup(header, cookie, t) ==
    LET r == GetCurrentUserId(header, cookie, t)
    IN  [status |-> r.status, detail |-> r.detail, challenge |-> r.challenge,
         user |-> r.user_id]

\* get_current_user: the account of the resolved id, or the 401 it raises
\* when the store has no row for that id
GetCurrentUser(header, cookie, t) ==
    LET r == GetCurrentUserId(header, cookie, t)
    IN  IF r.status # 200
        THEN [status |-> r.status, detail |-> r.detail,
              challenge |-> r.challenge, user |-> None]
        ELSE IF FindUserById(r.user_id) = {}
        THEN [status |-> 401, detail |-> "User not found", challenge |-> "",
              user |-> None]
        ELSE [status |-> 200, detail |-> "", challenge |-> "",
              user |-> (CHOOSE u \in FindUserById(r.user_id) : TRUE).id]

\* the token the account routes handed out last, and what its holder can
\* make of it
HeldTokens == {tk \in {authResp.token} : tk.form = "jws"}
CredTokens == HeldTokens \cup {Tampered(tk) : tk \in HeldTokens}

\* the header and the cookie of a request: no token, a token in the bearer
\* header, or a token in the cookie
Credentials ==
    {<<NoHeader, AbsentToken>>}
        \cup {<<[scheme |-> "Bearer", token |-> tk], AbsentToken>> : tk \in CredTokens}
        \cup {<<NoHeader, tk>> : tk \in CredTokens}

\* GET /api/auth/me
Me(header, cookie) ==
    /\ acct' = [header |-> header, cookie |-> cookie,
                result |-> GetCurrentUser(header, cookie, now)]
    /\ UNCHANGED <<now, users, pc, req, authResp, prevResp, codec, dec, sess,
                   secretOf, created, events, evCreated, evResp>>

\* an account row is removed from the store, outside of any route
StoreDeleteUser(u) ==
    /\ u \in users
    /\ users' = users \ {u}
    /\ secretOf' = [secretOf EXCEPT ![u.email] = None]
    /\ UNCHANGED <<now, pc, req, authResp, prevResp, codec, dec, sess,
                   created, acct, events, evCreated, evResp>>

\* one client signing up through the API
SignupStep ==
    \/ \E e \in Emails : SignupFind("c1", "api", e, "secret1")
    \/ SignupCreate("c1")

AccountNext ==
    \/ SignupStep
    \/ \E u \in users : StoreDeleteUser(u)
    \/ \E cr \in Credentials : Me(cr[1], cr[2])
    \/ \E d \in TickSteps : Tick(d)

\* accounts come and go while their tokens are presented to /auth/me
SpecAccount == Init /\ [][AccountNext]_vars

----------------------------------------------------------------------------
\* Claims about loading the current user

\* the token get_current_user_id decides on: the bearer header's, else the
\* cookie
DecidingToken(r) == IF HasBearer(r) THEN r.header.token ELSE r.cookie

FailureOutward(res) ==
    [status |-> res.status, detail |-> res.detail, challenge |-> res.challenge]

\* C11: get_current_user returns a User only for a valid token whose subject
\* is the id of a row the store holds at that time; for a valid token whose
\* subject has no row any more it fails with "User not found", a failure
\* that differs from both failures raised for a missing or invalid token.
C11_AccountNotFound ==
    [][acct' # acct
       => LET r == acct'
              tk == DecidingToken(r)
          IN  /\ r.result.user # None
                 => /\ ValidAt(tk, now)
                    /\ r.result.user = tk.sub
                    /\ \E u \in users : u.id = tk.sub
              /\ (ValidAt(tk, now) /\ ~ \E u \in users : u.id = tk.sub)
                 => /\ r.result.user = None
                    /\ r.result.detail = "User not found"
                    /\ FailureOutward(r.result)
                           \notin {FailureOutward(Unauthenticated(d)) :
                                     d \in {"Not authenticated",
                                            "Invalid or expired token"}}
      ]_vars

\* C11 witness: a valid token of an account that was deleted was answered
\* with "User not found"
C11_Witness ==
    /\ created > Cardinality(users)
    /\ ValidAt(DecidingToken(acct), now)
    /\ acct.result.status = 401
    /\ acct.result.detail = "User not found"

----------------------------------------------------------------------------
\* Sign-in against stored hashes the application did not write

\* the stored hash of an account is overwritten, outside of any route
StoreSetHash(u, h) ==
    /\ u \in users
    /\ u.passwordHash # h
    /\ users' = (users \ {u}) \cup {[u EXCEPT !.passwordHash = h]}
    /\ UNCHANGED <<now, pc, req, authResp, prevResp, codec, dec, sess,
                   secretOf, created, acct, events, evCreated, evResp>>

CorruptNext ==
    \/ SignupStep
    \/ \E u \in users, h \in {NoHash, CorruptHash} : StoreSetHash(u, h)
    \/ \E sf \in Surfaces, e \in Emails, p \in {"secret1", "wrong"} :
           Signin("c1", sf, e, p)

\* sign-in on both surfaces while stored hashes get damaged
SpecCorrupt == Init /\ [][CorruptNext]_vars

----------------------------------------------------------------------------
\* Claims about corrupt stored hashes
\* C12: verify_password returns false, and does not raise, for a stored
\* hash that is malformed, so a sign-in to an account whose stored hash is
\* corrupt ends in the InvalidCredentials answer of its surface.
C12_CorruptHashIsInvalidCredentials ==
    [][\A sf \in Surfaces, e \in Emails, p \in {"secret1", "wrong"} :
         (/\ pc["c1"] = "idle"
          /\ \E u \in users : u.email = e /\ u.passwordHash = CorruptHash
          /\ authResp'.op = "signin"
          /\ Signin("c1", sf, e, p))
         => /\ VerifyPassword(p, CorruptHash) = Verified(FALSE)
            /\ Outward(authResp') = Outward(SigninFailure(sf, "bad_password"))
      ]_vars

----------------------------------------------------------------------------
\* Event store and the routes that write it

EventIds == <<"e1", "e2">>
Titles == {"t1", "t2"}

\* date/time lists as the API receives them, already validated
DateLists == {<<>>, <<"d1">>}

\* the dates field of a PATCH body that leaves it unset (or null)
UnsetDates == <<None>>

\* the date strings of the form field, split at commas and whitespace
FormDateLists == {<<>>, <<"d1">>, <<"bad", "d1">>}

\* datetime.fromisoformat accepts the string
IsIsoFormat(s) == s # "bad"

\* the form's date strings that parse; the others are dropped
ParseFormDates(date_list) == SelectSeq(date_list, IsIsoFormat)

FindEventById(id) == {e \in events : e.id = id}

EventResp(surface, header, cookie, status, detail) ==
    [surface |-> surface, header |-> header, cookie |-> cookie,
     status |-> status, detail |-> detail]

\* the answer of a route whose get_current_user dependency failed
ApiRefused(header, cookie, user) ==
    /\ evResp' = EventResp("api", header, cookie, user.status, user.detail)
    /\ UNCHANGED <<events, evCreated>>

\* the answer of a form route that sends the visitor to the login page
BackendRefused(header, cookie, user_id) ==
    /\ evResp' = EventResp("html", header, cookie,
                           IF user_id.raised THEN 500 ELSE 303,
                           IF user_id.raised THEN "Internal Server Error"
                                             ELSE "/login")
    /\ UNCHANGED <<events, evCreated>>

\* POST /api/events
CreateEvent(header, cookie, title, dates) ==
    /\ evCreated < Len(EventIds)
    /\ LET current_user == GetCurrentUser(header, cookie, now) IN
       IF current_user.status # 200
       THEN ApiRefused(header, cookie, current_user)
       ELSE /\ events' = events \cup {[id |-> EventIds[evCreated + 1],
                                       title |-> title, dates |-> dates]}
            /\ evCreated' = evCreated + 1
            /\ evResp' = EventResp("api", header, cookie, 201, "")
    /\ UNCHANGED <<now, users, pc, req, authResp, prevResp, codec, dec, sess,
                   secretOf, created, acct>>

\* PATCH /api/events/{event_id}; a title of None is a field the body
\* leaves unset
UpdateEvent(header, cookie, event_id, title, dates) ==
    /\ LET current_user == GetCurrentUser(header, cookie, now)
           existing == FindEventById(event_id)
       IN  IF current_user.status # 200
           THEN ApiRefused(header, cookie, current_user)
           ELSE IF existing = {}
           THEN /\ evResp' = EventResp("api", header, cookie, 404,
                                       "Event not found")
                /\ UNCHANGED <<events, evCreated>>
           ELSE LET e == CHOOSE x \in existing : TRUE IN
                /\ events' = (events \ {e}) \cup
                       {[id |-> e.id,
                         title |-> IF title = None THEN e.title ELSE title,
                         dates |-> IF dates = UnsetDates THEN e.dates ELSE dates]}
                /\ evResp' = EventResp("api", header, cookie, 200, "")
                /\ UNCHANGED evCreated
    /\ UNCHANGED <<now, users, pc, req, authResp, prevResp, codec, dec, sess,
                   secretOf, created, acct>>

\* DELETE /api/events/{event_id}
DeleteEvent(header, cookie, event_id) ==
    /\ LET current_user == GetCurrentUser(header, cookie, now)
           existing == FindEventById(event_id)
       IN  IF current_user.status # 200
           THEN ApiRefused(header, cookie, current_user)
           ELSE IF existing = {}
           THEN /\ evResp' = EventResp("api", header, cookie, 404,
                                       "Event not found")
                /\ UNCHANGED <<events, evCreated>>
           ELSE /\ events' = events \ existing
                /\ evResp' = EventResp("api", header, cookie, 204, "")
                /\ UNCHANGED evCreated
    /\ UNCHANGED <<now, users, pc, req, authResp, prevResp, codec, dec, sess,
                   secretOf, created, acct>>

\* POST /backend/events
BackendCreateEventSubmit(header, cookie, title, date_list) ==
    /\ evCreated < Len(EventIds)
    /\ LET user_id == GetOptionalUserId(header, cookie, now) IN
       IF user_id.raised \/ user_id.value = None
       THEN BackendRefused(header, cookie, user_id)
       ELSE /\ events' = events \cup {[id |-> EventIds[evCreated + 1],
                                       title |-> title,
                                       dates |-> ParseFormDates(date_list)]}
            /\ evCreated' = evCreated + 1
            /\ evResp' = EventResp("html", header, cookie, 303,
                                   "/backend#event")
    /\ UNCHANGED <<now, users, pc, req, authResp, prevResp, codec, dec, sess,
                   secretOf, created, acct>>

\* POST /backend/events/{event_id}: the dates are replaced, then the row is
\* updated; an id the store does not hold changes nothing
BackendUpdateEventSubmit(header, cookie, event_id, title, date_list) ==
    /\ LET user_id == GetOptionalUserId(header, cookie, now) IN
       IF user_id.raised \/ user_id.value = None
       THEN BackendRefused(header, cookie, user_id)
       ELSE /\ events' = {IF e.id = event_id
                          THEN [id |-> e.id, title |-> title,
                                dates |-> ParseFormDates(date_list)]
                          ELSE e : e \in events}
            /\ evResp' = EventResp("html", header, cookie, 303,
                                   "/backend")
            /\ UNCHANGED evCreated
    /\ UNCHANGED <<now, users, pc, req, authResp, prevResp, codec, dec, sess,
                   secretOf, created, acct>>

\* POST /backend/events/{event_id}/delete
BackendDeleteEvent(header, cookie, event_id) ==
    /\ LET user_id == GetOptionalUserId(header, cookie, now) IN
       IF user_id.raised \/ user_id.value = None
       THEN BackendRefused(header, cookie, user_id)
       ELSE /\ events' = events \ FindEventById(event_id)
            /\ evResp' = EventResp("html", header, cookie, 303,
                                   "/backend")
            /\ UNCHANGED evCreated
    /\ UNCHANGED <<now, users, pc, req, authResp, prevResp, codec, dec, sess,
                   secretOf, created, acct>>

\* the header and the cookie of a request to an event route: no token, the
\* issued token in the header (its scheme in either case) or in the cookie,
\* and a tampered header beside the issued token in the cookie
EventCredentials ==
    {<<NoHeader, AbsentToken>>}
        \cup {<<[scheme |-> sc, token |-> tk], AbsentToken>> :
                 sc \in {"Bearer", "bearer"}, tk \in HeldTokens}
        \cup {<<NoHeader, tk>> : tk \in HeldTokens}
        \cup {<<[scheme |-> "Bearer", token |-> Tampered(tk)], tk>> : tk \in HeldTokens}

\* the first account signing up through the API
SignupOne ==
    /\ created = 0
    /\ \/ SignupFind("c1", "api", "a@x.com", "secret1")
       \/ SignupCreate("c1")

\* the default lifetime of a token and one more second pass
LifetimePasses == Tick((DefaultTTL + 1) * TicksPerSecond)

EventsNext ==
    \/ SignupOne
    \/ \E u \in users : StoreDeleteUser(u)
    \/ LifetimePasses
    \/ \E cr \in EventCredentials, t \in Titles, ds \in DateLists :
           CreateEvent(cr[1], cr[2], t, ds)
    \/ \E cr \in EventCredentials, id \in {"e1", "e2"},
          t \in Titles \cup {None}, ds \in DateLists \cup {UnsetDates} :
           UpdateEvent(cr[1], cr[2], id, t, ds)
    \/ \E cr \in EventCredentials, id \in {"e1", "e2"} :
           DeleteEvent(cr[1], cr[2], id)
    \/ \E cr \in EventCredentials, t \in Titles, ds \in FormDateLists :
           BackendCreateEventSubmit(cr[1], cr[2], t, ds)
    \/ \E cr \in EventCredentials, id \in {"e1", "e2"},
          t \in Titles, ds \in FormDateLists :
           BackendUpdateEventSubmit(cr[1], cr[2], id, t, ds)
    \/ \E cr \in EventCredentials, id \in {"e1", "e2"} :
           BackendDeleteEvent(cr[1], cr[2], id)

\* the event routes of both surfaces, while accounts come and go and
\* tokens expire
SpecEvents == Init /\ [][EventsNext]_vars

----------------------------------------------------------------------------
\* Claims about who can change events
\* C13: the events and their dates change only in a step of a request
\* that presented a token valid at that time: on the API the deciding
\* token is valid and its subject has a User row, on the form routes
\* get_optional_user_id returned a user id; a request answered with 401 or
\* with the redirect to /login leaves the events and their dates as they
\* were.
C13_EventsChangeOnlyWhenAuthenticated ==
    [][LET r == evResp' IN
       /\ events' # events
          => /\ \E tk \in {r.header.token, r.cookie} : ValidAt(tk, now)
             /\ r.surface = "api"
                => /\ ValidAt(DecidingToken(r), now)
                   /\ \E u \in users : u.id = DecidingToken(r).sub
             /\ r.surface = "html"
                => GetOptionalUserId(r.header, r.cookie, now).value # None
       /\ (r.status = 401 \/ r.detail = "/login") => events' = events
       /\ (r # evResp /\ ~ \E tk \in {r.header.token, r.cookie} : ValidAt(tk, now))
          => /\ events' = events
             /\ r.surface = "api" => r.status = 401
             /\ r.surface = "html" => r.status = 303 /\ r.detail = "/login"
      ]_vars

\* C13 witness: events were created and one was deleted, and then a form
\* request that carried a token in its cookie was sent to the login page
C13_Witness ==
    /\ events # {}
    /\ evCreated > Cardinality(events)
    /\ evResp.surface = "html"
    /\ evResp.cookie.form = "jws"
    /\ evResp.detail = "/login"

====
